---------------------------- MODULE Spec2Model ----------------------------
(***************************************************************************)
(* The extruder kinematics of klippy/kinematics/extruder.py                *)
(* (class PrinterExtruder) as a state machine.                             *)
(*                                                                         *)
(* Numbers.  The Python code computes with floats.  Here every quantity    *)
(* read from the configuration, a command or a move is an integer number   *)
(* of some unit, and every quotient the code forms is kept as an exact     *)
(* fraction (Rat), so that a comparison or an equality of two results is   *)
(* decided by the arithmetic the code writes and not by rounding.          *)
(* Times are counted in units of 5 ms (0.020 s = 4, 0.100 s = 20,          *)
(* 0.105 s = 21).                                                          *)
(***************************************************************************)
EXTENDS Integers, Sequences, FiniteSets, TLC

\* ------------------------------------------------------------------------
\* Bounds of the model
\* ------------------------------------------------------------------------

\* SET_PRESSURE_ADVANCE commands issued after construction
MaxSets == 3
\* move and motor_off calls made after construction
MaxOps == 4

\* ------------------------------------------------------------------------
\* Program constants
\* ------------------------------------------------------------------------

\* maxval=.100 of the pressure_advance_smooth_time config option, in 5 ms units
CONFIG_SMOOTH_TIME_MAX == 20
\* maxval=.105 of the SMOOTH_TIME command parameter, in 5 ms units
CMD_SMOOTH_TIME_MAX == 21

\* ------------------------------------------------------------------------
\* Exact fractions for the code's float quotients
\* ------------------------------------------------------------------------

Abs(x) == IF x < 0 THEN -x ELSE x

RECURSIVE GCD(_, _)
GCD(a, b) == IF b = 0 THEN a ELSE GCD(b, a % b)

\* the fraction n/d (d # 0) in lowest terms with a positive denominator
Rat(n, d) ==
    LET g == GCD(Abs(n), Abs(d))
        s == IF d < 0 THEN -1 ELSE 1
    IN  [n |-> (s * n) \div g, d |-> (s * d) \div g]

RatInt(i) == [n |-> i, d |-> 1]
RatSub(a, b) == Rat(a.n * b.d - b.n * a.d, a.d * b.d)
RatMul(a, b) == Rat(a.n * b.n, a.d * b.d)
\* a / b, b # 0
RatDiv(a, b) == Rat(a.n * b.d, a.d * b.n)
RatAbs(a) == [n |-> Abs(a.n), d |-> a.d]
RatLess(a, b) == a.n * b.d < b.n * a.d
RatLeq(a, b) == a.n * b.d <= b.n * a.d
RatZero(a) == a.n = 0


\* ------------------------------------------------------------------------
\* State
\* ------------------------------------------------------------------------

VARIABLES
    config,                        \* the limits read once in __init__
    can_extrude,                   \* self.heater.can_extrude (the heater's fact)
    pressure_advance,              \* self.pressure_advance
    pressure_advance_smooth_time,  \* self.pressure_advance_smooth_time
    need_motor_enable,             \* self.need_motor_enable
    extrude_pos,                   \* self.extrude_pos
    extrude_pa_pos,                \* self.extrude_pa_pos
    set_calls,                     \* arguments of every _set_pressure_advance invocation
    calls,                         \* note_flush_delay / extruder_set_pressure calls, in order
    cmd_response,                  \* outcome of the last SET_PRESSURE_ADVANCE command
    checked,                       \* check_move calls: move, heater fact, outcome
    junctions,                     \* calc_junction calls: both moves and the value returned
    trace                          \* move / motor_off calls with the calls they made

vars == <<config, can_extrude, pressure_advance, pressure_advance_smooth_time,
          need_motor_enable, extrude_pos, extrude_pa_pos, set_calls, calls,
          cmd_response, checked, junctions, trace>>

pa_vars == <<pressure_advance, pressure_advance_smooth_time, set_calls, calls,
             cmd_response>>
run_vars == <<need_motor_enable, extrude_pos, extrude_pa_pos, trace>>

\* ------------------------------------------------------------------------
\* Configuration (PrinterExtruder.__init__)
\* ------------------------------------------------------------------------

\* The fields __init__ derives from the config section.  max_extrude_ratio is
\* max_cross_section / filament_area.
NewConfig(nozzle, area, cross_section, e_velocity, e_accel, e_dist, corner_v) ==
    [nozzle_diameter   |-> nozzle,
     filament_area     |-> area,
     max_extrude_ratio |-> Rat(cross_section, area),
     max_e_velocity    |-> e_velocity,
     max_e_accel       |-> e_accel,
     max_e_dist        |-> e_dist,
     instant_corner_v  |-> corner_v]

\* Config sections the model is constructed from: nozzle_diameter > 0,
\* max_extrude_cross_section > 0, max_extrude_only_velocity/accel > 0,
\* max_extrude_only_distance >= 0, instantaneous_corner_velocity >= 0.
Configs ==
    { NewConfig(2, 4, 2, 6, 12, 3, 1),
      NewConfig(1, 4, 4, 6, 12, 3, 0),
      NewConfig(2, 4, 6, 3, 5, 0, 2) }

\* ------------------------------------------------------------------------
\* Pressure advance (_set_pressure_advance, cmd_SET_PRESSURE_ADVANCE)
\* ------------------------------------------------------------------------

\* pressure_advance config values (minval=0.) the model is constructed with
ConfigAdvanceInputs == {0, 5}
\* pressure_advance_smooth_time config values (above=0., maxval=.100)
ConfigSmoothInputs == {s \in {4, 20} : 0 < s /\ s <= CONFIG_SMOOTH_TIME_MAX}
\* ADVANCE parameter values a command may carry
AdvanceInputs == {-1, 0, 5}
\* SMOOTH_TIME parameter values a command may carry
SmoothInputs == {0, 4, 21, 22}

\* A mutation: the stored smoothing time is reported as old whatever the stored gain.
old_smooth_time_raw(cur_advance, cur_smooth_time) == cur_smooth_time

\* A mutation: the smoothing-time argument is used whatever the new gain.
new_smooth_time_raw(advance, smooth_time) == smooth_time

\* old_smooth_time as computed from the stored pair before it is replaced
old_smooth_time(cur_advance, cur_smooth_time) ==
    IF cur_advance = 0 THEN 0 ELSE cur_smooth_time

\* new_smooth_time as computed from the arguments
new_smooth_time(advance, smooth_time) ==
    IF advance = 0 THEN 0 ELSE smooth_time

\* One call made to a collaborator, with the stored pair the extruder holds
\* (and get_status reports) at the time of the call.
Call(fn, args, cur_advance, cur_smooth_time) ==
    [fn |-> fn, args |-> args, stored |-> <<cur_advance, cur_smooth_time>>]

\* A mutation: the negotiation is skipped when the stored pair is re-supplied.
set_pressure_advance_calls_skip(cur_advance, cur_smooth_time, advance, smooth_time) ==
    LET new == new_smooth_time(advance, smooth_time)
        old == old_smooth_time(cur_advance, cur_smooth_time)
        note == IF advance = cur_advance /\ smooth_time = cur_smooth_time
                THEN << >>
                ELSE << Call("note_flush_delay", <<new, old>>,
                             cur_advance, cur_smooth_time) >>
    IN  note \o << Call("extruder_set_pressure", <<advance, new>>,
                        cur_advance, cur_smooth_time) >>

\* The calls _set_pressure_advance makes, in order, before it stores the pair:
\* toolhead.note_flush_delay(new_smooth_time, old_delay=old_smooth_time), then
\* extruder_set_pressure(sk_extruder, pressure_advance, new_smooth_time).
set_pressure_advance_calls(cur_advance, cur_smooth_time, advance, smooth_time) ==
    LET new == new_smooth_time(advance, smooth_time)
        old == old_smooth_time(cur_advance, cur_smooth_time)
    IN  << Call("note_flush_delay", <<new, old>>, cur_advance, cur_smooth_time),
           Call("extruder_set_pressure", <<advance, new>>,
                cur_advance, cur_smooth_time) >>

\* _set_pressure_advance(pressure_advance, smooth_time)
set_pressure_advance(advance, smooth_time) ==
    /\ calls' = calls \o set_pressure_advance_calls(
                    pressure_advance, pressure_advance_smooth_time,
                    advance, smooth_time)
    /\ pressure_advance' = advance
    /\ pressure_advance_smooth_time' = smooth_time
    /\ set_calls' = Append(set_calls, <<advance, smooth_time>>)

\* The parameter sets of a SET_PRESSURE_ADVANCE command: each of ADVANCE and
\* SMOOTH_TIME is present or absent.
ParamNames == {"ADVANCE", "SMOOTH_TIME"}
ParamValues(name) == IF name = "ADVANCE" THEN AdvanceInputs ELSE SmoothInputs
Params ==
    UNION { { p \in [S -> AdvanceInputs \cup SmoothInputs] :
                \A k \in S : p[k] \in ParamValues(k) } : S \in SUBSET ParamNames }

\* gcode.get_float(name, params, default, minval, maxval): the parameter when
\* present, the default otherwise.
get_float(name, params, default) ==
    IF name \in DOMAIN params THEN params[name] ELSE default

\* gcode.get_float raises when a present parameter is below minval or above
\* maxval (maxvals is empty when the call names no maxval)
get_float_error(name, params, minval, maxvals) ==
    /\ name \in DOMAIN params
    /\ \/ params[name] < minval
       \/ \E maxval \in maxvals : params[name] > maxval

\* cmd_SET_PRESSURE_ADVANCE(params)
cmd_SET_PRESSURE_ADVANCE(params) ==
    /\ Len(set_calls) <= MaxSets
    /\ IF \/ get_float_error("ADVANCE", params, 0, {})
          \/ get_float_error("SMOOTH_TIME", params, 0, {CMD_SMOOTH_TIME_MAX})
       THEN /\ cmd_response' = [kind |-> "error", advance |-> 0, smooth_time |-> 0]
            /\ UNCHANGED <<pressure_advance, pressure_advance_smooth_time,
                           set_calls, calls>>
       ELSE LET advance == get_float("ADVANCE", params, pressure_advance)
                smooth_time == get_float("SMOOTH_TIME", params,
                                         pressure_advance_smooth_time)
            IN  /\ set_pressure_advance(advance, smooth_time)
                /\ cmd_response' = [kind |-> "info", advance |-> advance,
                                    smooth_time |-> smooth_time]
    /\ UNCHANGED <<config, can_extrude, run_vars, checked, junctions>>

SetPressureAdvanceCommand == \E params \in Params : cmd_SET_PRESSURE_ADVANCE(params)

\* ------------------------------------------------------------------------
\* Construction
\* ------------------------------------------------------------------------

\* The state PrinterExtruder.__init__ leaves: the stored pair starts at 0., 0.
\* and _set_pressure_advance is called once with the configured pair.
Construct(cfg, heater, advance, smooth_time) ==
    /\ config = cfg
    /\ can_extrude = heater
    /\ pressure_advance = advance
    /\ pressure_advance_smooth_time = smooth_time
    /\ need_motor_enable = TRUE
    /\ extrude_pos = 0
    /\ extrude_pa_pos = 0
    /\ set_calls = << <<advance, smooth_time>> >>
    /\ calls = set_pressure_advance_calls(0, 0, advance, smooth_time)
    /\ cmd_response = [kind |-> "none", advance |-> 0, smooth_time |-> 0]
    /\ checked = << >>
    /\ junctions = << >>
    /\ trace = << >>

DefaultConfig == NewConfig(2, 4, 2, 6, 12, 3, 1)

\* Construction with every configured pressure-advance pair
InitPressureAdvance ==
    \E advance \in ConfigAdvanceInputs, smooth_time \in ConfigSmoothInputs :
        Construct(DefaultConfig, TRUE, advance, smooth_time)

SpecPressureAdvance ==
    InitPressureAdvance /\ [][SetPressureAdvanceCommand]_vars

\* ------------------------------------------------------------------------
\* Moves (the planner's Move objects, as far as this file reads them)
\* ------------------------------------------------------------------------

\* A Move with the attributes extruder.py reads.  axes_d holds the X, Y, Z and
\* extruder displacements (axes_d[0..3] in the code, 1..4 here); start_pos and
\* end_pos are kept for the extruder axis only (start_pos[3], end_pos[3]).
Move(axes_d, move_d, is_kinematic_move, max_cruise_v2, start_pos) ==
    [axes_d            |-> axes_d,
     move_d            |-> move_d,
     is_kinematic_move |-> is_kinematic_move,
     max_cruise_v2     |-> max_cruise_v2,
     accel             |-> 2,
     start_v           |-> 1,
     cruise_v          |-> 3,
     accel_t           |-> 1,
     cruise_t          |-> 2,
     decel_t           |-> 1,
     start_pos         |-> start_pos,
     end_pos           |-> start_pos + axes_d[4]]

\* Displacements the moves of the model are drawn from
LateralD == {0, 1}
ExtrudeD == {-4, -1, 0, 1, 2, 4}
MoveD == {1, 2}

\* Moves with XYZ travel: is_kinematic_move is set and move_d is their length.
KinematicMoves ==
    { Move(<<x, y, z, e>>, d, TRUE, 9, 0) :
        x \in LateralD, y \in LateralD, z \in LateralD, e \in ExtrudeD, d \in MoveD }
    \ { Move(<<0, 0, 0, e>>, d, TRUE, 9, 0) : e \in ExtrudeD, d \in MoveD }

\* Moves without XYZ travel: is_kinematic_move is clear.  check_move,
\* calc_junction and move all divide axes_d[3] by move_d, and check_move
\* divides by the quotient for these moves, so for them move_d is the nonzero
\* length of the extruder displacement.
ExtrudeOnlyMoves ==
    { Move(<<0, 0, 0, e>>, Abs(e), FALSE, 9, 0) : e \in ExtrudeD \ {0} }

\* The moves handed to check_move, calc_junction and move: move_d is nonzero.
PlannedMoves == KinematicMoves \cup ExtrudeOnlyMoves

\* Moves without XYZ travel as the design document's data model has them:
\* move_d is the XYZ distance, 0
ZeroLengthMoves ==
    { Move(<<0, 0, 0, e>>, 0, FALSE, 9, 0) : e \in ExtrudeD }

\* Moves without XYZ travel and without extruder displacement
IdleMoves ==
    { Move(<<0, 0, 0, 0>>, d, FALSE, 9, 0) : d \in MoveD }

\* ------------------------------------------------------------------------
\* check_move
\* ------------------------------------------------------------------------

\* The errors check_move raises, by the first line of their message
NotHot == "Extrude below minimum temp"
ExtrudeOnlyTooLong == "Extrude only move too long"
CrossSectionExceeded == "Move exceeds maximum extrusion"
\* Python's error for a float division by zero
ZeroDivisionError == "ZeroDivisionError"
Accepted == "ok"

\* extrude_r = move.axes_d[3] / move.move_d, for move_d # 0
extrude_r(move) == Rat(move.axes_d[4], move.move_d)

\* A mutation: the sign of the extruder displacement is not dropped.
too_long_signed(cfg, move) == move.axes_d[4] > cfg.max_e_dist

\* abs(move.axes_d[3]) > self.max_e_dist
too_long(cfg, move) == Abs(move.axes_d[4]) > cfg.max_e_dist

\* A mutation: an extrusion of exactly the threshold is not tiny.
tiny_extrusion_strict(cfg, move) ==
    RatLess(RatInt(move.axes_d[4]),
            RatMul(RatInt(cfg.nozzle_diameter), cfg.max_extrude_ratio))

\* move.axes_d[3] <= self.nozzle_diameter * self.max_extrude_ratio
tiny_extrusion(cfg, move) ==
    RatLeq(RatInt(move.axes_d[4]),
           RatMul(RatInt(cfg.nozzle_diameter), cfg.max_extrude_ratio))

\* What a check_move call did: the error raised (or Accepted) and the
\* move.limit_speed calls made.
Outcome(result, limit_speed) == [result |-> result, limit_speed |-> limit_speed]

\* The extrude-only branch and the ratio branch, for move_d # 0
check_move_limits(cfg, move) ==
    IF ~move.is_kinematic_move \/ RatLess(extrude_r(move), RatInt(0))
    THEN IF too_long(cfg, move)
         THEN Outcome(ExtrudeOnlyTooLong, << >>)
         ELSE IF RatZero(extrude_r(move))
              THEN Outcome(ZeroDivisionError, << >>)
              ELSE LET inv_extrude_r == RatDiv(RatInt(1), RatAbs(extrude_r(move)))
                   IN  Outcome(Accepted,
                         << <<RatMul(RatInt(cfg.max_e_velocity), inv_extrude_r),
                              RatMul(RatInt(cfg.max_e_accel), inv_extrude_r)>> >>)
    ELSE IF RatLess(cfg.max_extrude_ratio, extrude_r(move))
         THEN IF tiny_extrusion(cfg, move)
              THEN Outcome(Accepted, << >>)
              ELSE Outcome(CrossSectionExceeded, << >>)
         ELSE Outcome(Accepted, << >>)

\* A mutation: the temperature gate is applied after the extrude-only branch.
check_move_result_late_gate(cfg, heater_can_extrude, move) ==
    IF move.move_d = 0
    THEN Outcome(ZeroDivisionError, << >>)
    ELSE IF check_move_limits(cfg, move).result = ExtrudeOnlyTooLong
         THEN check_move_limits(cfg, move)
         ELSE IF ~heater_can_extrude
              THEN Outcome(NotHot, << >>)
              ELSE check_move_limits(cfg, move)

\* check_move(move), in the order of its statements: the quotient, the
\* temperature gate, then the branches.
check_move_result(cfg, heater_can_extrude, move) ==
    IF move.move_d = 0
    THEN Outcome(ZeroDivisionError, << >>)
    ELSE IF ~heater_can_extrude
         THEN Outcome(NotHot, << >>)
         ELSE check_move_limits(cfg, move)

\* check_move(move): the extruder's own state is left alone
check_move(move) ==
    /\ checked' = << [move        |-> move,
                      can_extrude |-> can_extrude,
                      outcome     |-> check_move_result(config, can_extrude, move)] >>
    /\ UNCHANGED <<config, can_extrude, pa_vars, run_vars, junctions>>

CheckPlannedMove == \E move \in PlannedMoves : check_move(move)

CheckZeroLengthMove == \E move \in ZeroLengthMoves \cup IdleMoves : check_move(move)

\* The heater crosses its minimum extrude temperature
HeaterUpdate ==
    /\ can_extrude' = ~can_extrude
    /\ UNCHANGED <<config, pa_vars, run_vars, checked, junctions>>

\* Construction with every configuration and heater state, default pressure advance
InitLimits ==
    \E cfg \in Configs, heater \in BOOLEAN :
        Construct(cfg, heater, 0, 4)

NextCheckMove == CheckPlannedMove \/ HeaterUpdate

SpecCheckMove == InitLimits /\ [][NextCheckMove]_vars

NextCheckAnyMove == CheckPlannedMove \/ CheckZeroLengthMove \/ HeaterUpdate

\* check_move driven as well with moves whose move_d or extrude ratio is 0
\* although they are not kinematic moves
SpecCheckAnyMove == InitLimits /\ [][NextCheckAnyMove]_vars

\* ------------------------------------------------------------------------
\* calc_junction
\* ------------------------------------------------------------------------

\* The moves calc_junction is called with: ratios -1, 0, 1/2, 1 and 2, the
\* ratios -1 and 1 each on two moves that differ in max_cruise_v2.
JunctionMoves ==
    { Move(<<1, 0, 0, -1>>, 1, TRUE, 9, 0),
      Move(<<0, 0, 0, -1>>, 1, FALSE, 4, 0),
      Move(<<1, 0, 0, 0>>, 1, TRUE, 9, 0),
      Move(<<1, 0, 0, 1>>, 2, TRUE, 9, 0),
      Move(<<1, 0, 0, 1>>, 1, TRUE, 9, 0),
      Move(<<0, 1, 0, 2>>, 2, TRUE, 4, 0),
      Move(<<1, 0, 0, 2>>, 1, TRUE, 9, 0) }

\* A mutation: the previous move's ratio is not subtracted.
calc_junction_value_own_ratio(cfg, prev_move, move) ==
    LET diff_r == extrude_r(move)
    IN  IF ~RatZero(diff_r)
        THEN LET q == RatDiv(RatInt(cfg.instant_corner_v), RatAbs(diff_r))
             IN  RatMul(q, q)
        ELSE RatInt(move.max_cruise_v2)

\* A mutation: the quotient is not squared.
calc_junction_value_unsquared(cfg, prev_move, move) ==
    LET diff_r == RatSub(extrude_r(move), extrude_r(prev_move))
    IN  IF ~RatZero(diff_r)
        THEN RatDiv(RatInt(cfg.instant_corner_v), RatAbs(diff_r))
        ELSE RatInt(move.max_cruise_v2)

\* The value calc_junction(prev_move, move) returns, for nonzero move_d
calc_junction_value(cfg, prev_move, move) ==
    LET diff_r == RatSub(extrude_r(move), extrude_r(prev_move))
    IN  IF ~RatZero(diff_r)
        THEN LET q == RatDiv(RatInt(cfg.instant_corner_v), RatAbs(diff_r))
             IN  RatMul(q, q)
        ELSE RatInt(move.max_cruise_v2)

\* calc_junction(prev_move, move): nothing is assigned; the last two calls
\* are kept with the value each returned.
calc_junction(prev_move, move) ==
    /\ junctions' =
          (IF Len(junctions) < 2 THEN junctions ELSE Tail(junctions))
          \o << [prev_move |-> prev_move,
                 move      |-> move,
                 value     |-> calc_junction_value(config, prev_move, move)] >>
    /\ UNCHANGED <<config, can_extrude, pa_vars, run_vars, checked>>

CalcJunction ==
    \E prev_move \in JunctionMoves, move \in JunctionMoves :
        calc_junction(prev_move, move)

SpecJunction == InitLimits /\ [][CalcJunction]_vars

\* ------------------------------------------------------------------------
\* move, motor_off
\* ------------------------------------------------------------------------

\* The moves executed: forward extrusion with X or Y travel, a travel move
\* without extrusion, a retraction during travel, extrusion during pure Z
\* travel, and extrude-only moves both ways; one of them starting from a
\* reset extruder position.
ExecutedMoves ==
    { Move(<<1, 0, 0, 2>>, 1, TRUE, 9, 0),
      Move(<<0, 1, 0, 1>>, 2, TRUE, 9, 0),
      Move(<<0, 1, 0, 1>>, 2, TRUE, 9, 5),
      Move(<<1, 1, 0, 0>>, 1, TRUE, 9, 0),
      Move(<<1, 0, 0, -1>>, 1, TRUE, 9, 0),
      Move(<<0, 0, 1, 1>>, 1, TRUE, 9, 0),
      Move(<<0, 0, 0, 2>>, 2, FALSE, 9, 0),
      Move(<<0, 0, 0, -1>>, 1, FALSE, 9, 0) }

\* A mutation: lateral travel is not required.
is_pa_move_any_travel(move) == move.axes_d[4] >= 0

\* is_pa_move: axis_d >= 0. and (move.axes_d[0] or move.axes_d[1])
is_pa_move(move) ==
    move.axes_d[4] >= 0 /\ (move.axes_d[1] # 0 \/ move.axes_d[2] # 0)

\* The extruder_move_fill call of move(print_time, move), for nonzero move_d:
\* the trapezoid projected on the extruder axis by axis_r = axis_d / move_d.
extruder_move_fill(print_time, move, pa_pos) ==
    LET axis_r == Rat(move.axes_d[4], move.move_d)
    IN  [print_time     |-> print_time,
         accel_t        |-> move.accel_t,
         cruise_t       |-> move.cruise_t,
         decel_t        |-> move.decel_t,
         start_pos      |-> move.start_pos,
         extrude_pa_pos |-> pa_pos,
         start_v        |-> RatMul(RatInt(move.start_v), axis_r),
         cruise_v       |-> RatMul(RatInt(move.cruise_v), axis_r),
         accel          |-> RatMul(RatInt(move.accel), axis_r),
         is_pa_move     |-> is_pa_move(move)]

\* A mutation: the latch is not cleared once the motor is enabled.
move_effect_latch_kept(need_enable, pa_pos, print_time, move) ==
    [motor_enable      |-> IF need_enable THEN << <<print_time, 1>> >> ELSE << >>,
     need_motor_enable |-> need_enable,
     move_fill         |-> << extruder_move_fill(print_time, move, pa_pos) >>,
     extrude_pos       |-> move.end_pos,
     extrude_pa_pos    |-> IF is_pa_move(move) THEN pa_pos + move.axes_d[4] ELSE pa_pos]

\* What move(print_time, move) does, given the latch and the accumulator: the
\* stepper.motor_enable calls, the latch, the extruder_move_fill call and the
\* two positions it leaves.
move_effect(need_enable, pa_pos, print_time, move) ==
    [motor_enable      |-> IF need_enable THEN << <<print_time, 1>> >> ELSE << >>,
     need_motor_enable |-> FALSE,
     move_fill         |-> << extruder_move_fill(print_time, move, pa_pos) >>,
     extrude_pos       |-> move.end_pos,
     extrude_pa_pos    |-> IF is_pa_move(move) THEN pa_pos + move.axes_d[4] ELSE pa_pos]

\* print_time of the next call: time advances with every call
PrintTime == Len(trace) + 1

\* move(print_time, move); the name move is taken by the record field
move_apply(print_time, m) ==
    LET effect == move_effect(need_motor_enable, extrude_pa_pos, print_time, m)
    IN  /\ Len(trace) < MaxOps
        /\ need_motor_enable' = effect.need_motor_enable
        /\ extrude_pos' = effect.extrude_pos
        /\ extrude_pa_pos' = effect.extrude_pa_pos
        /\ trace' = Append(trace, [op           |-> "move",
                                   args         |-> << m >>,
                                   motor_enable |-> effect.motor_enable,
                                   move_fill    |-> effect.move_fill])
        /\ UNCHANGED <<config, can_extrude, pa_vars, checked, junctions>>

\* motor_off(print_time)
motor_off(print_time) ==
    /\ Len(trace) < MaxOps
    /\ need_motor_enable' = TRUE
    /\ trace' = Append(trace, [op           |-> "motor_off",
                               args         |-> << >>,
                               motor_enable |-> << <<print_time, 0>> >>,
                               move_fill    |-> << >>])
    /\ UNCHANGED <<config, can_extrude, pa_vars, extrude_pos, extrude_pa_pos,
                   checked, junctions>>

ExecuteMove == \E m \in ExecutedMoves : move_apply(PrintTime, m)

MotorOff == motor_off(PrintTime)

\* Construction with the default configuration
InitDefault == Construct(DefaultConfig, TRUE, 0, 4)

NextMove == ExecuteMove \/ MotorOff

SpecMove == InitDefault /\ [][NextMove]_vars

\* ------------------------------------------------------------------------
\* The whole extruder
\* ------------------------------------------------------------------------

Init ==
    \E cfg \in Configs, heater \in BOOLEAN,
       advance \in ConfigAdvanceInputs, smooth_time \in ConfigSmoothInputs :
        Construct(cfg, heater, advance, smooth_time)

Next ==
    \/ SetPressureAdvanceCommand
    \/ CheckPlannedMove
    \/ HeaterUpdate
    \/ CalcJunction
    \/ ExecuteMove
    \/ MotorOff

Spec == Init /\ [][Next]_vars

\* ------------------------------------------------------------------------
\* Claims about pressure advance
\* ------------------------------------------------------------------------

\* The stored pair before invocation k of _set_pressure_advance: 0., 0. before
\* the one made at construction, the previous invocation's arguments after.
StoredBefore(k) == IF k = 1 THEN <<0, 0>> ELSE set_calls[k - 1]

\* C1: every invocation of _set_pressure_advance issues exactly one
\* note_flush_delay call, followed by exactly one extruder_set_pressure call
\* carrying the new gain, and both calls are made while the extruder still
\* stores the pair it held before the invocation (the stored gain and smoothing
\* time are updated last); an invocation that re-supplies the stored pair is
\* no exception.
C1_NegotiateThenPublish ==
    /\ Len(calls) = 2 * Len(set_calls)
    /\ \A k \in 1 .. Len(set_calls) :
          /\ 2 * k <= Len(calls)
          /\ calls[2 * k - 1].fn = "note_flush_delay"
          /\ calls[2 * k - 1].stored = StoredBefore(k)
          /\ calls[2 * k].fn = "extruder_set_pressure"
          /\ calls[2 * k].args[1] = set_calls[k][1]
          /\ calls[2 * k].stored = StoredBefore(k)

\* C1 witness: a command has re-supplied the stored gain and smoothing time
\* (a nonzero gain), and the negotiation call was made for it all the same.
C1_Witness ==
    \E k \in 2 .. Len(set_calls) :
        /\ set_calls[k] = set_calls[k - 1]
        /\ set_calls[k][1] # 0
        /\ 2 * k <= Len(calls)
        /\ calls[2 * k - 1].fn = "note_flush_delay"

\* C2 as claimed: whenever the set operation is invoked with gain 0, the
\* note_flush_delay call reports 0 as new and the smoothing time stored before
\* the invocation as old, and the smoothing time published is 0.
C2_Original ==
    \A k \in 1 .. Len(set_calls) :
        (set_calls[k][1] = 0 /\ 2 * k <= Len(calls)) =>
            /\ calls[2 * k - 1].args = <<0, StoredBefore(k)[2]>>
            /\ calls[2 * k].args[2] = 0

\* C2 amended: whenever the set operation is invoked with gain 0, whatever
\* the stored pair and the smoothing-time argument, the note_flush_delay call
\* reports 0 as new, the smoothing time published is 0, and the old value
\* reported is the smoothing time stored before the invocation when the gain
\* stored before it is nonzero, and 0 when that gain is 0.
C2_ZeroGainZeroSmoothing ==
    \A k \in 1 .. Len(set_calls) :
        (set_calls[k][1] = 0 /\ 2 * k <= Len(calls)) =>
            /\ calls[2 * k - 1].fn = "note_flush_delay"
            /\ calls[2 * k - 1].args[1] = 0
            /\ calls[2 * k - 1].args[2] =
                  (IF StoredBefore(k)[1] # 0 THEN StoredBefore(k)[2] ELSE 0)
            /\ calls[2 * k].fn = "extruder_set_pressure"
            /\ calls[2 * k].args = <<0, 0>>

\* C2 witness: a command set the gain to 0 with a nonzero smoothing time while
\* a nonzero gain and smoothing time were stored.
C2_Witness ==
    \E k \in 2 .. Len(set_calls) :
        /\ set_calls[k][1] = 0
        /\ set_calls[k][2] # 0
        /\ set_calls[k - 1][1] # 0
        /\ set_calls[k - 1][2] # 0
        /\ 2 * k <= Len(calls)
        /\ calls[2 * k - 1].args = <<0, set_calls[k - 1][2]>>

\* C10: the old delay of each note_flush_delay call is the new delay of the
\* call before it (0 for the first, made at construction), and the new delay
\* of each call is the smoothing time published to the solver by the same
\* invocation.
C10_DelayChain ==
    \A k \in 1 .. Len(set_calls) :
        2 * k <= Len(calls) =>
            /\ calls[2 * k - 1].fn = "note_flush_delay"
            /\ calls[2 * k].fn = "extruder_set_pressure"
            /\ calls[2 * k - 1].args[2] =
                  (IF k = 1 THEN 0 ELSE calls[2 * k - 3].args[1])
            /\ calls[2 * k - 1].args[1] = calls[2 * k].args[2]

\* C10 witness: the gain is stored as 0 with a nonzero raw smoothing time, and
\* the next invocation, enabling the gain, reported 0 as the old delay.
C10_Witness ==
    \E k \in 2 .. Len(set_calls) :
        /\ set_calls[k - 1][1] = 0
        /\ set_calls[k - 1][2] # 0
        /\ set_calls[k][1] # 0
        /\ set_calls[k][2] # 0
        /\ 2 * k <= Len(calls)
        /\ calls[2 * k - 1].args = <<set_calls[k][2], 0>>

\* ------------------------------------------------------------------------
\* Claims about check_move
\* ------------------------------------------------------------------------

\* The clamp of an accepted extrude-only move: max_e_velocity / |extrude_r| and
\* max_e_accel / |extrude_r|, with extrude_r = axes_d[3] / move_d
ExtrudeOnlyClamp(cfg, move) ==
    << <<Rat(cfg.max_e_velocity * move.move_d, Abs(move.axes_d[4])),
         Rat(cfg.max_e_accel * move.move_d, Abs(move.axes_d[4]))>> >>

\* The extrude-only treatment of a checked move: rejected as too long exactly
\* when |axes_d[3]| > max_e_dist, accepted with the clamp otherwise.
ExtrudeOnlyTreatment(c) ==
    IF Abs(c.move.axes_d[4]) > config.max_e_dist
    THEN c.outcome = Outcome(ExtrudeOnlyTooLong, << >>)
    ELSE /\ c.outcome.result = Accepted
         /\ Len(c.outcome.limit_speed) = 1
         /\ (c.move.move_d # 0 /\ c.move.axes_d[4] # 0) =>
                c.outcome.limit_speed = ExtrudeOnlyClamp(config, c.move)

C4_Original ==
    \A i \in DOMAIN checked :
        ( /\ checked[i].can_extrude
          /\ \/ checked[i].move.move_d = 0
             \/ checked[i].move.axes_d[4] * checked[i].move.move_d < 0 )
        => ExtrudeOnlyTreatment(checked[i])

\* C4 amended: with the heater able to extrude, every move with a nonzero
\* extrude ratio (move_d and axes_d[3] both nonzero) that is not a kinematic
\* move (is_kinematic_move is false) or whose ratio is negative gets the
\* extrude-only treatment, max_extrude_ratio playing no part: it is rejected
\* as too long exactly when |axes_d[3]| > max_e_dist, and otherwise accepted
\* with its velocity clamped to max_e_velocity / |extrude_r| and its
\* acceleration to max_e_accel / |extrude_r|; it is never rejected with
\* CrossSectionExceeded.
C4_ExtrudeOnlyBranch ==
    \A i \in DOMAIN checked :
        ( /\ checked[i].can_extrude
          /\ checked[i].move.move_d # 0
          /\ checked[i].move.axes_d[4] # 0
          /\ \/ ~checked[i].move.is_kinematic_move
             \/ checked[i].move.axes_d[4] * checked[i].move.move_d < 0 )
        => /\ ExtrudeOnlyTreatment(checked[i])
           /\ checked[i].outcome.result # CrossSectionExceeded

\* C4 witness: a forward extrude-only move (no XYZ travel, nonzero move_d)
\* whose ratio exceeds max_extrude_ratio was accepted and clamped.
C4_Witness ==
    \E i \in DOMAIN checked :
        /\ checked[i].can_extrude
        /\ ~checked[i].move.is_kinematic_move
        /\ checked[i].move.move_d # 0
        /\ checked[i].move.axes_d[4] > 0
        /\ RatLess(config.max_extrude_ratio, extrude_r(checked[i].move))
        /\ checked[i].outcome.result = Accepted
        /\ checked[i].outcome.limit_speed = ExtrudeOnlyClamp(config, checked[i].move)

\* axes_d[3] against nozzle_diameter * max_extrude_ratio, the latter being
\* n / d: -1, 0 or 1 as the displacement is below, at or above the threshold
AgainstTinyThreshold(cfg, e) ==
    LET lhs == e * cfg.max_extrude_ratio.d
        rhs == cfg.nozzle_diameter * cfg.max_extrude_ratio.n
    IN  IF lhs < rhs THEN -1 ELSE IF lhs = rhs THEN 0 ELSE 1

\* extrude_r > max_extrude_ratio, for move_d > 0
OverRatio(cfg, move) ==
    move.axes_d[4] * cfg.max_extrude_ratio.d > cfg.max_extrude_ratio.n * move.move_d

\* C5: a move with |axes_d[3]| <= nozzle_diameter * max_extrude_ratio is never
\* rejected with CrossSectionExceeded; and with the heater able to extrude, a
\* kinematic move with a non-negative ratio is rejected with
\* CrossSectionExceeded exactly when extrude_r > max_extrude_ratio and
\* axes_d[3] > nozzle_diameter * max_extrude_ratio, and is otherwise accepted
\* without a limit_speed call.
C5_CrossSection ==
    \A i \in DOMAIN checked :
        LET c == checked[i]
            e == c.move.axes_d[4]
        IN  /\ AgainstTinyThreshold(config, Abs(e)) <= 0 =>
                  c.outcome.result # CrossSectionExceeded
            /\ (c.can_extrude /\ c.move.is_kinematic_move /\ e >= 0) =>
                  IF OverRatio(config, c.move) /\ AgainstTinyThreshold(config, e) > 0
                  THEN c.outcome = Outcome(CrossSectionExceeded, << >>)
                  ELSE c.outcome = Outcome(Accepted, << >>)

\* C5 witness: a kinematic move over max_extrude_ratio whose displacement is
\* exactly nozzle_diameter * max_extrude_ratio was accepted.
C5_Witness ==
    \E i \in DOMAIN checked :
        /\ checked[i].can_extrude
        /\ checked[i].move.is_kinematic_move
        /\ OverRatio(config, checked[i].move)
        /\ AgainstTinyThreshold(config, checked[i].move.axes_d[4]) = 0
        /\ checked[i].outcome = Outcome(Accepted, << >>)

\* ------------------------------------------------------------------------
\* Claims about calc_junction
\* ------------------------------------------------------------------------

\* extrude ratio of move minus that of prev_move, times both (positive) move_d
DiffNumerator(prev_move, move) ==
    move.axes_d[4] * prev_move.move_d - prev_move.axes_d[4] * move.move_d

\* (instant_corner_v / |diff_r|)^2 for a nonzero diff_r
CornerLimit(cfg, prev_move, move) ==
    Rat((cfg.instant_corner_v * move.move_d * prev_move.move_d)
            * (cfg.instant_corner_v * move.move_d * prev_move.move_d),
        DiffNumerator(prev_move, move) * DiffNumerator(prev_move, move))

\* The value of a recorded call is the one the claim gives
JunctionValueAsClaimed(j) ==
    IF DiffNumerator(j.prev_move, j.move) # 0
    THEN j.value = CornerLimit(config, j.prev_move, j.move)
    ELSE j.value = RatInt(j.move.max_cruise_v2)

\* C6: calc_junction(prev_move, move) returns (instant_corner_v / |diff_r|)^2
\* when the two extrusion ratios differ, diff_r being the move's ratio minus
\* the previous move's, and the move's own max_cruise_v2 when they are equal;
\* and a call changes no state of the extruder.
C6_JunctionValue ==
    /\ [](\A i \in DOMAIN junctions : JunctionValueAsClaimed(junctions[i]))
    /\ [][junctions' # junctions =>
             UNCHANGED <<config, can_extrude, pa_vars, run_vars>>]_vars

\* C6 witness: a call with differing ratios and a nonzero instant_corner_v
\* returned a limit that is not the move's max_cruise_v2, and a call with
\* equal ratios on different moves returned the move's max_cruise_v2.
C6_Witness ==
    /\ config.instant_corner_v # 0
    /\ Len(junctions) = 2
    /\ DiffNumerator(junctions[1].prev_move, junctions[1].move) # 0
    /\ junctions[1].value # RatInt(junctions[1].move.max_cruise_v2)
    /\ junctions[1].value = CornerLimit(config, junctions[1].prev_move, junctions[1].move)
    /\ DiffNumerator(junctions[2].prev_move, junctions[2].move) = 0
    /\ junctions[2].prev_move # junctions[2].move
    /\ junctions[2].value = RatInt(junctions[2].move.max_cruise_v2)

\* One move has a negative extrusion ratio and the other a non-negative one
SignPatternDiffers(a, b) ==
    \/ a.axes_d[4] < 0 /\ b.axes_d[4] >= 0
    \/ b.axes_d[4] < 0 /\ a.axes_d[4] >= 0

\* C7 as claimed: (for an extruder with a nonzero instant_corner_v) there are
\* moves A and B, one with a negative and one with a non-negative extrusion
\* ratio, for which calc_junction(A, B) and calc_junction(B, A) differ.
C7_Original ==
    config.instant_corner_v # 0 =>
        \E a \in JunctionMoves, b \in JunctionMoves :
            /\ SignPatternDiffers(a, b)
            /\ calc_junction_value(config, a, b) # calc_junction_value(config, b, a)

\* C7 amended: calc_junction is symmetric in its two moves whenever their
\* extrusion ratios differ, whatever the signs of the ratios (|diff_r| is the
\* same either way round): a call for (A, B) and the call for (B, A) return
\* the same value.  The two values can differ only when the ratios are equal,
\* each call then returning the max_cruise_v2 of its own second move.
C7_SymmetricWhenRatiosDiffer ==
    (Len(junctions) = 2
        /\ junctions[2].prev_move = junctions[1].move
        /\ junctions[2].move = junctions[1].prev_move)
    => IF DiffNumerator(junctions[1].prev_move, junctions[1].move) # 0
       THEN junctions[2].value = junctions[1].value
       ELSE /\ junctions[1].value = RatInt(junctions[1].move.max_cruise_v2)
            /\ junctions[2].value = RatInt(junctions[2].move.max_cruise_v2)

\* C7 witness: calc_junction was called for a retraction followed by a forward
\* extrusion of a different ratio magnitude and then for the same two moves
\* the other way round, with a nonzero instant_corner_v, and returned the same
\* value.
C7_Witness ==
    /\ config.instant_corner_v # 0
    /\ Len(junctions) = 2
    /\ junctions[2].prev_move = junctions[1].move
    /\ junctions[2].move = junctions[1].prev_move
    /\ junctions[1].prev_move.axes_d[4] < 0
    /\ junctions[1].move.axes_d[4] > 0
    /\ RatAbs(extrude_r(junctions[1].prev_move)) # RatAbs(extrude_r(junctions[1].move))
    /\ junctions[2].value = junctions[1].value

\* ------------------------------------------------------------------------
\* Claims about move and motor_off
\* ------------------------------------------------------------------------

\* The move is coupled to pressure advance: extruder displacement >= 0 and a
\* nonzero X or Y displacement
Coupled(m) == m.axes_d[4] >= 0 /\ ~(m.axes_d[1] = 0 /\ m.axes_d[2] = 0)

\* Sum of axes_d[3] over the coupled moves among the first k calls
RECURSIVE CoupledSum(_)
CoupledSum(k) ==
    IF k = 0 THEN 0
    ELSE CoupledSum(k - 1)
         + (IF trace[k].op = "move" /\ Coupled(trace[k].args[1])
            THEN trace[k].args[1].axes_d[4] ELSE 0)

\* C8: extrude_pa_pos is the sum of axes_d[3] over the coupled moves applied so
\* far (so each move adds exactly its axes_d[3] when coupled and nothing
\* otherwise), and the accumulator each move submits to the solver is the
\* sum over the moves before it.
C8_PaPosAccumulates ==
    /\ extrude_pa_pos = CoupledSum(Len(trace))
    /\ \A i \in DOMAIN trace :
          trace[i].op = "move" =>
              /\ Len(trace[i].move_fill) = 1
              /\ trace[i].move_fill[1].extrude_pa_pos = CoupledSum(i - 1)
              /\ trace[i].move_fill[1].is_pa_move = Coupled(trace[i].args[1])

\* C8 witness: after a coupled move with a positive displacement, a move that
\* is not coupled but displaces the extruder (a retraction, a pure Z or an
\* extrude-only move) was applied and left the accumulator alone, and a later
\* coupled move submitted that accumulator.
C8_Witness ==
    \E i, j, k \in DOMAIN trace :
        /\ i < j /\ j < k
        /\ trace[i].op = "move" /\ Coupled(trace[i].args[1])
        /\ trace[i].args[1].axes_d[4] > 0
        /\ trace[j].op = "move" /\ ~Coupled(trace[j].args[1])
        /\ trace[j].args[1].axes_d[4] # 0
        /\ trace[k].op = "move" /\ Coupled(trace[k].args[1])
        /\ trace[k].move_fill[1].extrude_pa_pos = trace[i].args[1].axes_d[4]
        /\ extrude_pa_pos = trace[i].args[1].axes_d[4] + trace[k].args[1].axes_d[4]

\* C9: a move call issues motor_enable(print_time, 1) exactly when it is the
\* first call after construction or directly follows a motor_off, and no
\* other move call issues it; so two enable calls are always separated by a
\* motor_off.
C9_EnableOncePerActivation ==
    \A i \in DOMAIN trace :
        trace[i].op = "move" =>
            IF i = 1 \/ trace[i - 1].op = "motor_off"
            THEN trace[i].motor_enable = << <<i, 1>> >>
            ELSE trace[i].motor_enable = << >>

\* C9 witness: two moves in a row of which only the first enabled the motor,
\* then a motor_off, then a move that enabled it again.
C9_Witness ==
    /\ Len(trace) = 4
    /\ trace[1].op = "move" /\ trace[1].motor_enable = << <<1, 1>> >>
    /\ trace[2].op = "move" /\ trace[2].motor_enable = << >>
    /\ trace[3].op = "motor_off"
    /\ trace[4].op = "move" /\ trace[4].motor_enable = << <<4, 1>> >>

=============================================================================
